---- MODULE Spec2Model ----
(***************************************************************************)
(* Metamorphosis Agent: the Streamlit front end (src/app_render.py) and    *)
(* the command-line analyzer (src/design_agent.py).                        *)
(*                                                                         *)
(* The front end is modelled as a set of browser sessions, each with its   *)
(* own st.session_state, that share the process clock and the process-wide *)
(* st.cache_data store of run_gemini_analysis.  One action stands for one  *)
(* user event and the script runs it triggers, up to the point where the   *)
(* script waits in a call of a remote service; the return of that call and *)
(* the rest of the script are a second action, so the other sessions and   *)
(* the clock move while a session waits.  The two remote services and the  *)
(* client constructors are the environment: their answers are drawn from   *)
(* finite sets of the answers they can give.                               *)
(***************************************************************************)
EXTENDS Integers, Sequences, FiniteSets, TLC

VARIABLES
    now,                     \* int(time.time()): the process clock, in seconds
    cache,                   \* st.cache_data store of run_gemini_analysis
    gemini_api_key,          \* per session: the analysis credential ("" = none)
    hf_token,                \* per session: the render credential ("" = none)
    gemini_client,           \* per session: the client its latest script run built
    hf_client,               \* per session: the client its latest script run built
    pc,                      \* per session: the remote call its script waits in
    uploaded_file_obj,       \* st.session_state["uploaded_file_obj"]
    unique_id,               \* st.session_state["unique_id"]
    blueprint_data,          \* st.session_state["blueprint_data"]
    vis_prompt,              \* st.session_state["vis_prompt"]
    generated_image_obj,     \* st.session_state["generated_image_obj"]
    last_generation_status,  \* st.session_state["last_generation_status"]
    analyze_calls,           \* per session: finished calls of
                             \* analyze_image_callback for the item now uploaded,
                             \* under the credential now typed (observer)
    gemini_requests,         \* per session: requests sent to the analysis service
                             \* for the item now uploaded, under the credential
                             \* now typed (observer)
    hf_requested,            \* per session: whether a request was sent to the
                             \* render service for the prompt now stored (observer)
    issued_ids,              \* the identifiers given to the uploads so far
                             \* (observer)
    cli_pc,                  \* design_agent.py: position in analyze_waste_and_design
    cli_image,               \* design_agent.py: img, once opened
    cli_response,            \* design_agent.py: response, once received
    cli_outcome              \* design_agent.py: how the run ended

session_vars == <<uploaded_file_obj, unique_id, blueprint_data, vis_prompt,
                  generated_image_obj, last_generation_status>>
config_vars == <<gemini_api_key, hf_token, gemini_client, hf_client>>
observer_vars == <<analyze_calls, gemini_requests, hf_requested, issued_ids>>
cli_vars == <<cli_pc, cli_image, cli_response, cli_outcome>>
ui_vars == <<now, cache, pc, config_vars, session_vars, observer_vars>>
vars == <<ui_vars, cli_vars>>

---------------------------------------------------------------------------
(* Bounds of the model.                                                    *)

\* The clock runs from second 1 to second MaxTime.
MaxTime == 2

Sessions == {"s1", "s2"}
\* Contents of the files a user can upload.  Images decode; Corrupt is a file
\* with an accepted extension that PIL cannot open.
Images == {"A", "B"}
Corrupt == "corrupt"
Files == Images \cup {Corrupt}
Keys == {"k1"}
Tokens == {"hf"}

---------------------------------------------------------------------------
(* Python values.                                                          *)

\* None, where the other values are strings.
None == "None"
\* None, where the other values are integers (an epoch second is positive).
NoId == 0
\* None, where the other values are parsed JSON.  A parsed JSON value is a
\* record with the field py naming its Python type; a dict carries its keys
\* as further fields.
PyNone == [py |-> "None"]
EmptyDict == [py |-> "dict"]
SomeList == [py |-> "list"]

Keys_(d) == DOMAIN d \ {"py"}
HasKey(d, k) == k \in Keys_(d)
\* d without key k (the dict after d.pop(k, None)).
Without(d, k) == [f \in DOMAIN d \ {k} |-> d[f]]
\* d with d[k] = v.
With(d, k, v) == [f \in DOMAIN d \cup {k} |-> IF f = k THEN v ELSE d[f]]

\* bool(v) for a dict or None.
Truthy(v) == v.py = "dict" /\ Keys_(v) # {}
\* bool(s) for a string or None.
TruthyStr(s) == s # None /\ s # ""

\* The observers that count do so as 0, 1 and 2, for two or more.
Counted(n) == IF n = 0 THEN 1 ELSE 2

---------------------------------------------------------------------------
(* The blueprint schema.                                                   *)

DesignTypes == {"Art Piece", "Small Furniture", "Accessory", "Tool"}
RequiredFields == {"design_title", "design_type", "material_breakdown",
                   "assembly_steps_summary", "upcycle_score"}

\* A stored blueprint that meets DESIGN_SCHEMA (visualization_prompt has been
\* popped from it).
SchemaValid(b) ==
    /\ b.py = "dict"
    /\ RequiredFields \subseteq Keys_(b)
    /\ b.design_type \in DesignTypes
    /\ b.upcycle_score \in 1..10

---------------------------------------------------------------------------
(* The analysis service (gemini_client.models.generate_content).           *)

\* A design that follows the schema, for the image img.  material_breakdown
\* stands for the materials the service saw in the image it was sent, so it
\* names that image.
FullDesign(img) ==
    [py |-> "dict",
     design_title |-> "title",
     design_type |-> "Tool",
     material_breakdown |-> img,
     assembly_steps_summary |-> "steps",
     upcycle_score |-> 7,
     visualization_prompt |-> "prompt"]

\* The image a blueprint describes.
Describes(b) == b.material_breakdown

\* The value of response before the call has returned.
NoResponse == [raises |-> FALSE, text |-> [kind |-> "unset"], finish |-> "none"]
Raised == [raises |-> TRUE, text |-> [kind |-> "none"], finish |-> "none"]
NoText(kind, finish) == [raises |-> FALSE, text |-> [kind |-> kind], finish |-> finish]
Garbage == [raises |-> FALSE, text |-> [kind |-> "garbage"], finish |-> "STOP"]
Json(v) == [raises |-> FALSE, text |-> [kind |-> "json", value |-> v], finish |-> "STOP"]

\* What the service can answer to a request that carries the image img: the
\* call raises (network, auth, quota); the response has no text (text None or
\* ""); the text is not JSON; the text is JSON: a list, an empty object, a
\* design that follows the schema, a design without score and prompt, a design
\* with a score out of range and an empty prompt.
GeminiReplies(img) ==
    {Raised, Garbage}
    \cup {NoText(k, "none") : k \in {"none", "empty"}}
    \cup {Json(v) : v \in
            {SomeList,
             EmptyDict,
             FullDesign(img),
             Without(Without(FullDesign(img), "upcycle_score"), "visualization_prompt"),
             With(With(FullDesign(img), "upcycle_score", 11), "visualization_prompt", "")}}

---------------------------------------------------------------------------
(* The render service (hf_client.text_to_image).                           *)

\* What the service can answer: the call raises; it returns a PIL image (an
\* object with a save method); it returns encoded bytes that decode to an
\* image; it returns bytes that do not.
HfReplies == {"raises", "image", "bytes", "bad_bytes"}

\* The value every produced concept image is modelled by.
ConceptImage == "image"

---------------------------------------------------------------------------
(* Section 3: the clients.                                                 *)

\* What a constructor (genai.Client, InferenceClient) leaves for a credential:
\* without a credential nothing is built; with one, the client (named by the
\* credential it holds) or, when the constructor raises, None.
Clients(credential) == IF credential = "" THEN {None} ELSE {None, credential}

\* Section 3 in one script run of session s, run with the credentials key and
\* token: both clients are built anew.
BuildClients(s, key, token) ==
    /\ \E c \in Clients(key) : gemini_client' = [gemini_client EXCEPT ![s] = c]
    /\ \E c \in Clients(token) : hf_client' = [hf_client EXCEPT ![s] = c]

\* st.rerun(): the script run that ends an event, with the credentials as they
\* are.
Rerun(s) == BuildClients(s, gemini_api_key[s], hf_token[s])

---------------------------------------------------------------------------
(* Section 5: run_gemini_analysis and its st.cache_data store.             *)

\* Image.open(uploaded_file) succeeds.
Decodable(file) == file \in Images

\* The function's return value (blueprint, vis_prompt).
Result(blueprint, vis) == [blueprint |-> blueprint, vis |-> vis]
Failure == Result(PyNone, None)

\* The guard of the body's first statement: past it, generate_content is
\* called (a PIL image is always truthy, so _image_obj counts when it is there).
PassesGuard(client, image_obj) == client # None /\ image_obj # None

\* json.loads(text), then blueprint.pop("visualization_prompt", None), inside
\* the try: text None raises TypeError, "" and non-JSON text raise
\* JSONDecodeError, a parsed value that is no dict has no such pop; each is
\* caught by "except Exception".
ParseReply(reply) ==
    IF reply.raises THEN Failure
    ELSE IF reply.text.kind # "json" THEN Failure
    ELSE IF reply.text.value.py # "dict" THEN Failure
    ELSE LET parsed == reply.text.value
         IN  Result(Without(parsed, "visualization_prompt"),
                    IF HasKey(parsed, "visualization_prompt")
                    THEN parsed.visualization_prompt
                    ELSE None)

\* The body of run_gemini_analysis, run on a cache miss with the client of the
\* script run; reply is the service's answer when the body calls the service.
run_gemini_analysis_body(client, image_obj, reply) ==
    IF ~PassesGuard(client, image_obj) THEN Failure ELSE ParseReply(reply)

\* st.cache_data's key: the arguments whose names do not start with an
\* underscore.  _image_obj is left out of the key.
CacheKey(image_obj, client_api_key, id) == <<client_api_key, id>>

\* A store that keeps successful results only.
CacheStoreSuccessOnly(store, key, value) ==
    IF Truthy(value.blueprint)
    THEN [k \in DOMAIN store \cup {key} |-> IF k = key THEN value ELSE store[k]]
    ELSE store

\* What st.cache_data stores for a computed value: every return value is
\* stored, (None, None) included.
CacheStore(store, key, value) == [k \in DOMAIN store \cup {key} |->
                                    IF k = key THEN value ELSE store[k]]

\* Whether the decorated call sends a request to the analysis service: on a
\* miss, past the guard.
SendsGeminiRequest(client, image_obj, client_api_key, id) ==
    /\ CacheKey(image_obj, client_api_key, id) \notin DOMAIN cache
    /\ PassesGuard(client, image_obj)

\* The decorated call where it sends no request: the stored value on a hit,
\* the body's (None, None) on a miss that stops at the guard.
run_gemini_analysis(client, image_obj, client_api_key, id) ==
    LET key == CacheKey(image_obj, client_api_key, id)
    IN  IF key \in DOMAIN cache
        THEN cache[key]
        ELSE run_gemini_analysis_body(client, image_obj, NoResponse)

\* The store after such a call.
CacheAfterCall(client, image_obj, client_api_key, id) ==
    LET key == CacheKey(image_obj, client_api_key, id)
    IN  IF key \in DOMAIN cache
        THEN cache
        ELSE CacheStore(cache, key, run_gemini_analysis_body(client, image_obj, NoResponse))

\* The cache key of the item session s holds.
KeyOf(s) == CacheKey(uploaded_file_obj[s], gemini_api_key[s], unique_id[s])

\* st.cache_data computes a missing value under a lock of its key: a call that
\* misses while another session computes the value of the same key waits for
\* that session's store.
Computing(key) == \E t \in Sessions : pc[t] = "analyze" /\ KeyOf(t) = key

---------------------------------------------------------------------------
(* Section 6: generate_image_with_hf.                                      *)

\* The image returned, or None: a raising call and undecodable bytes are both
\* caught by "except Exception".
generate_image_with_hf(client, prompt_text, reply) ==
    IF client = None THEN None
    ELSE IF reply \in {"image", "bytes"} THEN ConceptImage
    ELSE None

\* Whether generate_image_with_hf sends a request to the render service.
SendsHfRequest(client) == client # None

---------------------------------------------------------------------------
(* Section 2: session initialisation, and the first script run.            *)

\* No script of the session waits in a remote call.
Idle == "idle"

Init_cli ==
    /\ cli_pc = "start"
    /\ cli_image = None
    /\ cli_response = NoResponse
    /\ cli_outcome = None

\* Every session starts with empty sidebar fields, so without clients.  (With
\* GEMINI_API_KEY or HF_TOKEN in the environment a session runs as one that
\* typed that credential before anything else and never edits it.)
Init ==
    /\ now = 1
    /\ cache = <<>>
    /\ pc = [s \in Sessions |-> Idle]
    /\ gemini_api_key = [s \in Sessions |-> ""]
    /\ hf_token = [s \in Sessions |-> ""]
    /\ gemini_client = [s \in Sessions |-> None]
    /\ hf_client = [s \in Sessions |-> None]
    /\ uploaded_file_obj = [s \in Sessions |-> None]
    /\ unique_id = [s \in Sessions |-> NoId]
    /\ blueprint_data = [s \in Sessions |-> PyNone]
    /\ vis_prompt = [s \in Sessions |-> None]
    /\ generated_image_obj = [s \in Sessions |-> None]
    /\ last_generation_status = [s \in Sessions |-> None]
    /\ analyze_calls = [s \in Sessions |-> 0]
    /\ gemini_requests = [s \in Sessions |-> 0]
    /\ hf_requested = [s \in Sessions |-> FALSE]
    /\ issued_ids = {}
    /\ Init_cli

---------------------------------------------------------------------------
(* Section 8 and 7: the user's actions.                                    *)

\* A second passes.
Tick ==
    /\ now < MaxTime
    /\ now' = now + 1
    /\ UNCHANGED <<cache, pc, config_vars, session_vars, observer_vars, cli_vars>>

\* The sidebar: the user edits the field "Gemini API Key"; the script runs
\* with the new credential.
type_gemini_api_key(s, key) ==
    /\ pc[s] = Idle
    /\ key # gemini_api_key[s]
    /\ gemini_api_key' = [gemini_api_key EXCEPT ![s] = key]
    /\ BuildClients(s, key, hf_token[s])
    /\ analyze_calls' = [analyze_calls EXCEPT ![s] = 0]
    /\ gemini_requests' = [gemini_requests EXCEPT ![s] = 0]
    /\ UNCHANGED <<now, cache, pc, hf_token, session_vars, hf_requested,
                   issued_ids, cli_vars>>

\* The sidebar: the user edits the field "Hugging Face Token".
type_hf_token(s, token) ==
    /\ pc[s] = Idle
    /\ token # hf_token[s]
    /\ hf_token' = [hf_token EXCEPT ![s] = token]
    /\ BuildClients(s, gemini_api_key[s], token)
    /\ UNCHANGED <<now, cache, pc, gemini_api_key, session_vars, observer_vars,
                   cli_vars>>

\* The landing page (shown while no file is stored): the user drops a file.
upload(s, file) ==
    /\ pc[s] = Idle
    /\ uploaded_file_obj[s] = None
    /\ uploaded_file_obj' = [uploaded_file_obj EXCEPT ![s] = file]
    /\ unique_id' = [unique_id EXCEPT ![s] = now]
    /\ blueprint_data' = [blueprint_data EXCEPT ![s] = PyNone]
    /\ vis_prompt' = [vis_prompt EXCEPT ![s] = None]
    /\ generated_image_obj' = [generated_image_obj EXCEPT ![s] = None]
    /\ analyze_calls' = [analyze_calls EXCEPT ![s] = 0]
    /\ gemini_requests' = [gemini_requests EXCEPT ![s] = 0]
    /\ hf_requested' = [hf_requested EXCEPT ![s] = FALSE]
    /\ issued_ids' = issued_ids \cup {now}
    /\ Rerun(s)
    /\ UNCHANGED <<now, cache, pc, gemini_api_key, hf_token,
                   last_generation_status, cli_vars>>

\* A script run started by the click of a button that this run does not draw:
\* the clients are built and nothing else happens.
RunWithoutButton(s) ==
    /\ BuildClients(s, gemini_api_key[s], hf_token[s])
    /\ UNCHANGED <<now, cache, pc, gemini_api_key, hf_token, session_vars,
                   observer_vars, cli_vars>>

\* The end of analyze_image_callback with the analysis result (None, None when
\* the callback returned before the analysis), and the st.rerun() after it.
AnalyzeDone(s, result) ==
    /\ analyze_calls' = [analyze_calls EXCEPT ![s] = Counted(@)]
    /\ IF Truthy(result.blueprint)
       THEN /\ blueprint_data' = [blueprint_data EXCEPT ![s] = result.blueprint]
            /\ vis_prompt' = [vis_prompt EXCEPT ![s] = result.vis]
            /\ generated_image_obj' = [generated_image_obj EXCEPT ![s] = None]
            /\ last_generation_status' = [last_generation_status EXCEPT ![s] = None]
            /\ hf_requested' = [hf_requested EXCEPT ![s] = FALSE]
       ELSE UNCHANGED <<blueprint_data, vis_prompt, generated_image_obj,
                        last_generation_status, hf_requested>>
    /\ pc' = [pc EXCEPT ![s] = Idle]
    /\ Rerun(s)
    /\ UNCHANGED <<now, gemini_api_key, hf_token, uploaded_file_obj, unique_id,
                   issued_ids, cli_vars>>

\* analyze_image_callback in a script run whose client is built: it runs to
\* its end when the file does not decode ("Error processing image") and when
\* run_gemini_analysis sends no request; otherwise it sends the request, under
\* the lock of the key, and waits for the answer.
analyze_image_callback(s, built) ==
    LET uploaded_file == uploaded_file_obj[s]
        id == unique_id[s]
    IN  /\ uploaded_file # None
        /\ IF ~Decodable(uploaded_file)
           THEN /\ AnalyzeDone(s, Failure)
                /\ UNCHANGED <<cache, gemini_requests>>
           ELSE IF ~SendsGeminiRequest(built, uploaded_file, gemini_api_key[s], id)
           THEN /\ cache' = CacheAfterCall(built, uploaded_file, gemini_api_key[s], id)
                /\ AnalyzeDone(s, run_gemini_analysis(built, uploaded_file,
                                                      gemini_api_key[s], id))
                /\ UNCHANGED gemini_requests
           ELSE /\ ~Computing(CacheKey(uploaded_file, gemini_api_key[s], id))
                /\ pc' = [pc EXCEPT ![s] = "analyze"]
                /\ gemini_requests' = [gemini_requests EXCEPT ![s] = Counted(@)]
                /\ BuildClients(s, gemini_api_key[s], hf_token[s])
                /\ gemini_client'[s] = built
                /\ UNCHANGED <<now, cache, gemini_api_key, hf_token, session_vars,
                               analyze_calls, hf_requested, issued_ids, cli_vars>>

\* generate_content has answered: the body's result is stored and the
\* callback runs to its end.
run_gemini_analysis_returns(s, reply) ==
    LET result == run_gemini_analysis_body(gemini_client[s], uploaded_file_obj[s], reply)
    IN  /\ pc[s] = "analyze"
        /\ cache' = CacheStore(cache, KeyOf(s), result)
        /\ AnalyzeDone(s, result)
        /\ UNCHANGED gemini_requests

\* The workspace before analysis (a file is stored, no blueprint): the user
\* presses "Analyze Image", drawn by the latest script run when its
\* gemini_client was set.  built is the client the script run of the click
\* builds: without it this run does not draw the button.
analyze_click(s, built) ==
    /\ pc[s] = Idle
    /\ uploaded_file_obj[s] # None
    /\ blueprint_data[s] = PyNone
    /\ gemini_client[s] # None
    /\ IF built = None
       THEN RunWithoutButton(s) /\ gemini_client'[s] = None
       ELSE analyze_image_callback(s, built)

\* The status a render without a prompt leaves.
NoPromptStatus == "no_prompt"

\* A failed render that leaves the status as it was.
RenderFailedSilently(s) == UNCHANGED <<last_generation_status, generated_image_obj>>

\* The session after a render that produced no image.
RenderFailed(s) ==
    /\ last_generation_status' = [last_generation_status EXCEPT ![s] = "failed"]
    /\ UNCHANGED generated_image_obj

\* A test that lets the empty prompt through.
HasPromptNotNone(prompt) == prompt # None

\* Whether generate_image_callback goes on to generate_image_with_hf.
HasPrompt(prompt) == TruthyStr(prompt)

\* The end of generate_image_callback, and the st.rerun() after it.
RenderDone(s) ==
    /\ pc' = [pc EXCEPT ![s] = Idle]
    /\ Rerun(s)
    /\ UNCHANGED <<now, cache, gemini_api_key, hf_token, uploaded_file_obj,
                   unique_id, blueprint_data, vis_prompt, analyze_calls,
                   gemini_requests, issued_ids, cli_vars>>

\* generate_image_callback in a script run whose client is built: without a
\* prompt it runs to its end; with one it sends the request and waits for the
\* answer.
generate_image_callback(s, built) ==
    LET prompt == vis_prompt[s]
    IN  IF ~HasPrompt(prompt)
        THEN /\ last_generation_status' =
                  [last_generation_status EXCEPT ![s] = NoPromptStatus]
             /\ UNCHANGED <<generated_image_obj, hf_requested>>
             /\ RenderDone(s)
        ELSE IF ~SendsHfRequest(built)
        THEN /\ RenderFailed(s)
             /\ UNCHANGED hf_requested
             /\ RenderDone(s)
        ELSE /\ pc' = [pc EXCEPT ![s] = "render"]
             /\ hf_requested' = [hf_requested EXCEPT ![s] = TRUE]
             /\ BuildClients(s, gemini_api_key[s], hf_token[s])
             /\ hf_client'[s] = built
             /\ UNCHANGED <<now, cache, gemini_api_key, hf_token, session_vars,
                            analyze_calls, gemini_requests, issued_ids, cli_vars>>

\* text_to_image has answered: generate_image_with_hf returns and the callback
\* runs to its end.
generate_image_with_hf_returns(s, reply) ==
    LET gen_image == generate_image_with_hf(hf_client[s], vis_prompt[s], reply)
    IN  /\ pc[s] = "render"
        /\ IF gen_image # None
           THEN /\ generated_image_obj' = [generated_image_obj EXCEPT ![s] = gen_image]
                /\ last_generation_status' =
                     [last_generation_status EXCEPT ![s] = "success"]
           ELSE RenderFailed(s)
        /\ UNCHANGED hf_requested
        /\ RenderDone(s)

\* The workspace after analysis (a blueprint is stored): the user presses
\* "Generate Concept Image", drawn by the latest script run when its hf_client
\* was set.
render_click(s, built) ==
    /\ pc[s] = Idle
    /\ uploaded_file_obj[s] # None
    /\ blueprint_data[s] # PyNone
    /\ hf_client[s] # None
    /\ IF built = None
       THEN RunWithoutButton(s) /\ hf_client'[s] = None
       ELSE generate_image_callback(s, built)

\* A reset that forgets the blueprint.
ResetSessionKeepsBlueprint(s) ==
    /\ uploaded_file_obj' = [uploaded_file_obj EXCEPT ![s] = None]
    /\ vis_prompt' = [vis_prompt EXCEPT ![s] = None]
    /\ generated_image_obj' = [generated_image_obj EXCEPT ![s] = None]
    /\ last_generation_status' = [last_generation_status EXCEPT ![s] = None]
    /\ unique_id' = [unique_id EXCEPT ![s] = NoId]
    /\ UNCHANGED blueprint_data

\* The session state reset_app leaves.
ResetSession(s) ==
    /\ uploaded_file_obj' = [uploaded_file_obj EXCEPT ![s] = None]
    /\ blueprint_data' = [blueprint_data EXCEPT ![s] = PyNone]
    /\ vis_prompt' = [vis_prompt EXCEPT ![s] = None]
    /\ generated_image_obj' = [generated_image_obj EXCEPT ![s] = None]
    /\ last_generation_status' = [last_generation_status EXCEPT ![s] = None]
    /\ unique_id' = [unique_id EXCEPT ![s] = NoId]

\* The workspace (a file is stored): the user presses "Upload New Image".
\* reset_app does not touch the st.cache_data store.
reset_app(s) ==
    /\ pc[s] = Idle
    /\ uploaded_file_obj[s] # None
    /\ ResetSession(s)
    /\ analyze_calls' = [analyze_calls EXCEPT ![s] = 0]
    /\ gemini_requests' = [gemini_requests EXCEPT ![s] = 0]
    /\ hf_requested' = [hf_requested EXCEPT ![s] = FALSE]
    /\ Rerun(s)
    /\ UNCHANGED <<now, cache, pc, gemini_api_key, hf_token, issued_ids, cli_vars>>

TypeKey(s) == \E key \in Keys \cup {""} : type_gemini_api_key(s, key)
TypeToken(s) == \E token \in Tokens \cup {""} : type_hf_token(s, token)
Upload(s) == \E file \in Files : upload(s, file)
Analyze(s) == \E built \in Clients(gemini_api_key[s]) : analyze_click(s, built)
AnalyzeReturn(s) ==
    \E reply \in GeminiReplies(uploaded_file_obj[s]) : run_gemini_analysis_returns(s, reply)
Render(s) == \E built \in Clients(hf_token[s]) : render_click(s, built)
RenderReturn(s) == \E reply \in HfReplies : generate_image_with_hf_returns(s, reply)
Reset(s) == reset_app(s)

\* One event of session s, or the return of the remote call it waits in.
Step(s) ==
    \/ TypeKey(s) \/ TypeToken(s)
    \/ Upload(s)
    \/ Analyze(s) \/ AnalyzeReturn(s)
    \/ Render(s) \/ RenderReturn(s)
    \/ Reset(s)

\* Any number of sessions of one server process.
Next == Tick \/ \E s \in Sessions : Step(s)

Spec == Init /\ [][Next]_vars

\* One session of the server process: the other one never connects.
Solo == "s1"
NextSolo == Tick \/ Step(Solo)
SpecSolo == Init /\ [][NextSolo]_vars

\* Sessions that each analyze one item: nobody renders or presses "Upload New
\* Image".
NextPair ==
    \/ Tick
    \/ \E s \in Sessions :
          \/ TypeKey(s)
          \/ Upload(s)
          \/ Analyze(s) \/ AnalyzeReturn(s)
SpecPair == Init /\ [][NextPair]_vars

---------------------------------------------------------------------------
(* design_agent.py: one run of the command-line analyzer.                  *)

\* The paths IMAGE_FILE can name: no file, or a file with the given content.
CliPaths == {"missing"} \cup Files

\* The command-line analyzer reads the finish reason of a response without
\* text, and prints design_title, upcycle_score and design_type by key: the
\* replies it is run against also include responses without text that carry a
\* finish reason (SAFETY or another), and designs without a title and without
\* a type.
CliReplies(img) ==
    GeminiReplies(img)
    \cup {NoText(k, f) : k \in {"none", "empty"}, f \in {"SAFETY", "OTHER"}}
    \cup {Json(Without(Without(FullDesign(img), "visualization_prompt"), f)) :
            f \in {"design_title", "design_type"}}

\* How a run can end.  The first five are messages the program prints before
\* it returns; the last is an exception that leaves analyze_waste_and_design.
HandledOutcomes == {"client_init_error", "image_not_found", "image_open_error",
                    "empty_response", "json_decode_error"}
Unhandled == "unhandled_exception"
Printed == "blueprint_printed"

CliEnd(outcome) ==
    /\ cli_pc' = "done"
    /\ cli_outcome' = outcome

\* The main block: genai.Client() inside try/except.
CliStart(client_ok) ==
    /\ cli_pc = "start"
    /\ IF client_ok
       THEN cli_pc' = "open" /\ UNCHANGED cli_outcome
       ELSE CliEnd("client_init_error")
    /\ UNCHANGED <<cli_image, cli_response, ui_vars>>

\* Image.open(image_path) inside try/except.
CliOpen(path) ==
    /\ cli_pc = "open"
    /\ IF path = "missing" THEN CliEnd("image_not_found") /\ UNCHANGED cli_image
       ELSE IF ~Decodable(path) THEN CliEnd("image_open_error") /\ UNCHANGED cli_image
       ELSE cli_pc' = "request" /\ cli_image' = path /\ UNCHANGED cli_outcome
    /\ UNCHANGED <<cli_response, ui_vars>>

\* What a raising generate_content call leads to: the call stands outside
\* every try block.
RequestRaised == Unhandled

\* client.models.generate_content(...).
CliRequest(reply) ==
    /\ cli_pc = "request"
    /\ cli_response' = reply
    /\ IF reply.raises
       THEN CliEnd(RequestRaised)
       ELSE cli_pc' = "check_text" /\ UNCHANGED cli_outcome
    /\ UNCHANGED <<cli_image, ui_vars>>

\* "if not response.text": the troubleshooting messages, then return.
CliCheckText ==
    /\ cli_pc = "check_text"
    /\ IF cli_response.text.kind \in {"none", "empty"}
       THEN CliEnd("empty_response")
       ELSE cli_pc' = "decode" /\ UNCHANGED cli_outcome
    /\ UNCHANGED <<cli_image, cli_response, ui_vars>>

\* json.loads(response.text) and the print of json.dumps, inside
\* try / except json.JSONDecodeError.
CliDecode ==
    /\ cli_pc = "decode"
    /\ IF cli_response.text.kind # "json"
       THEN CliEnd("json_decode_error")
       ELSE cli_pc' = "print_design_title" /\ UNCHANGED cli_outcome
    /\ UNCHANGED <<cli_image, cli_response, ui_vars>>

\* The three metric lines, in the order printed.
MetricAfter(field) ==
    IF field = "design_title" THEN "upcycle_score"
    ELSE IF field = "upcycle_score" THEN "design_type"
    ELSE "none"

\* print(design_blueprint[field]) inside the same try: a parsed value that is no
\* dict raises TypeError, a dict without the key raises KeyError, and neither
\* is a JSONDecodeError.
CliPrintMetric(field) ==
    LET design_blueprint == cli_response.text.value
    IN  /\ cli_pc = "print_" \o field
        /\ IF design_blueprint.py # "dict" \/ ~HasKey(design_blueprint, field)
           THEN CliEnd(Unhandled)
           ELSE IF MetricAfter(field) = "none"
           THEN CliEnd(Printed)
           ELSE cli_pc' = "print_" \o MetricAfter(field) /\ UNCHANGED cli_outcome
        /\ UNCHANGED <<cli_image, cli_response, ui_vars>>

NextCli ==
    \/ \E client_ok \in BOOLEAN : CliStart(client_ok)
    \/ \E path \in CliPaths : CliOpen(path)
    \/ \E reply \in CliReplies(cli_image) : CliRequest(reply)
    \/ CliCheckText
    \/ CliDecode
    \/ \E field \in {"design_title", "upcycle_score", "design_type"} : CliPrintMetric(field)

\* The command-line analyzer alone: no front-end session is running.
SpecCli == Init /\ [][NextCli]_vars

---------------------------------------------------------------------------
(* The claims.                                                             *)

\* C1: whenever a blueprint is stored in the session, it was computed from the
\* content of the item the session now holds.
C1_BlueprintOfUploadedItem ==
    \A s \in Sessions :
        blueprint_data[s] # PyNone =>
            /\ HasKey(blueprint_data[s], "material_breakdown")
            /\ Describes(blueprint_data[s]) = uploaded_file_obj[s]

\* C2: for the item a session holds (one identifier, one credential), at most
\* one request goes to the analysis service however often analyze is called;
\* once a call of analyze has finished on it, its result is memoized, a failure
\* as well as a success, and what the session shows is that memoized result.
C2_AnalyzeMemoized ==
    \A s \in Sessions :
        /\ gemini_requests[s] <= 1
        /\ (analyze_calls[s] >= 1 /\ Decodable(uploaded_file_obj[s])) =>
              /\ KeyOf(s) \in DOMAIN cache
              /\ IF Truthy(cache[KeyOf(s)].blueprint)
                 THEN /\ blueprint_data[s] = cache[KeyOf(s)].blueprint
                      /\ vis_prompt[s] = cache[KeyOf(s)].vis
                 ELSE blueprint_data[s] = PyNone

\* C2, witness: analyze was called twice on one item; the first call sent the
\* one request and failed, the second was served from the store.
C2_CalledTwice ==
    \E s \in Sessions :
        /\ analyze_calls[s] = 2
        /\ gemini_requests[s] = 1
        /\ blueprint_data[s] = PyNone

\* C3: a reset leaves the session empty (item, identifier, blueprint, prompt,
\* image and status cleared) and leaves no entry for the discarded item in the
\* analysis store.
C3_ResetClearsSessionAndCache ==
    [][\A s \in Sessions :
          reset_app(s) =>
              /\ uploaded_file_obj'[s] = None
              /\ unique_id'[s] = NoId
              /\ blueprint_data'[s] = PyNone
              /\ vis_prompt'[s] = None
              /\ generated_image_obj'[s] = None
              /\ last_generation_status'[s] = None
              /\ KeyOf(s) \notin DOMAIN cache']_vars

\* C4: a blueprint stored in the session has every required field, a category
\* of the enum and a score in 1..10.
C4_StoredBlueprintValid ==
    \A s \in Sessions :
        blueprint_data[s] # PyNone => SchemaValid(blueprint_data[s])

\* C5: a render taken while the session holds no prompt (None or "") sends no
\* request to the render service, sets the status to no_prompt, and leaves the
\* blueprint, the prompt and the rendered image as they were.
C5_RenderWithoutPrompt ==
    [][\A s \in Sessions :
          \A built \in Clients(hf_token[s]) \ {None} :
              (render_click(s, built) /\ vis_prompt[s] \in {None, ""}) =>
                  /\ hf_requested'[s] = hf_requested[s]
                  /\ pc'[s] = Idle
                  /\ last_generation_status'[s] = "no_prompt"
                  /\ blueprint_data'[s] = blueprint_data[s]
                  /\ vis_prompt'[s] = vis_prompt[s]
                  /\ generated_image_obj'[s] = generated_image_obj[s]]_vars

\* C5, witness: a render has acted on a session whose prompt is the empty
\* string, and no request has gone out.
C5_RenderedWithoutPrompt ==
    \E s \in Sessions :
        /\ vis_prompt[s] = ""
        /\ blueprint_data[s] # PyNone
        /\ last_generation_status[s] = "no_prompt"
        /\ ~hf_requested[s]

\* An analyze of session s that ends without a request and without a
\* blueprint: the file does not decode, or the store holds a result for the
\* key whose blueprint is None or empty.
AnalyzeFailsAtOnce(s) ==
    \/ ~Decodable(uploaded_file_obj[s])
    \/ /\ KeyOf(s) \in DOMAIN cache
       /\ ~Truthy(cache[KeyOf(s)].blueprint)

\* A reply of the analysis service that yields no blueprint.
AnalyzeFails(reply) == ~Truthy(ParseReply(reply).blueprint)

\* A reply of the render service that yields no image.
RenderFails(reply) == reply \in {"raises", "bad_bytes"}

\* C6: a failed analyze (one that ends at once, or one whose request is
\* answered) leaves the uploaded item and its identifier as they were and the
\* blueprint None; a failed render sets the status to failed and leaves the
\* uploaded item, the blueprint and the prompt as they were.
C6_FailuresKeepProgress ==
    [][\A s \in Sessions :
          /\ pc[s] = Idle =>
                \A built \in Clients(gemini_api_key[s]) \ {None} :
                    (analyze_click(s, built) /\ AnalyzeFailsAtOnce(s)) =>
                        /\ uploaded_file_obj'[s] = uploaded_file_obj[s]
                        /\ unique_id'[s] = unique_id[s]
                        /\ blueprint_data'[s] = PyNone
          /\ pc[s] = "analyze" =>
                \A reply \in GeminiReplies(uploaded_file_obj[s]) :
                    (run_gemini_analysis_returns(s, reply) /\ AnalyzeFails(reply)) =>
                        /\ uploaded_file_obj'[s] = uploaded_file_obj[s]
                        /\ unique_id'[s] = unique_id[s]
                        /\ blueprint_data'[s] = PyNone
          /\ pc[s] = "render" =>
                \A reply \in HfReplies :
                    (generate_image_with_hf_returns(s, reply) /\ RenderFails(reply)) =>
                        /\ last_generation_status'[s] = "failed"
                        /\ uploaded_file_obj'[s] = uploaded_file_obj[s]
                        /\ blueprint_data'[s] = blueprint_data[s]
                        /\ vis_prompt'[s] = vis_prompt[s]]_vars

\* C6, witness: an analyze was answered with a failure, which the store still
\* holds, and a render has failed on a session that still holds its item, its
\* blueprint and its prompt.
C6_FailedAnalyzeAndRender ==
    /\ \E key \in DOMAIN cache : ~Truthy(cache[key].blueprint)
    /\ \E s \in Sessions :
          /\ last_generation_status[s] = "failed"
          /\ uploaded_file_obj[s] \in Images
          /\ blueprint_data[s] # PyNone
          /\ vis_prompt[s] = "prompt"

\* C7: a run of the command-line analyzer that meets an undecodable image, a
\* failing remote call, a response without text or a text that is not JSON
\* ends in a handled error, not in an exception that leaves the operation.
C7_CliFailuresHandled ==
    (/\ cli_pc = "done"
     /\ \/ cli_outcome \in {"image_not_found", "image_open_error"}
        \/ cli_response.raises
        \/ cli_response.text.kind \in {"none", "empty", "garbage"})
    => cli_outcome \in HandledOutcomes

\* C8: with sessions that run side by side, each handling one item, the
\* blueprint a session holds depends on its own item alone: it describes no
\* image other than the one the session uploaded.
C8_SessionsIsolated ==
    \A s \in Sessions :
        blueprint_data[s] # PyNone =>
            \A img \in Images \ {uploaded_file_obj[s]} :
                Describes(blueprint_data[s]) # img

\* C9: right after an upload the session holds the new item under an
\* identifier that no earlier upload was given, and blueprint, prompt and
\* image are None and the status is none.
C9_UploadStartsFresh ==
    [][\A s \in Sessions :
          Upload(s) =>
              /\ uploaded_file_obj'[s] # None
              /\ unique_id'[s] # NoId
              /\ unique_id'[s] \notin issued_ids
              /\ blueprint_data'[s] = PyNone
              /\ vis_prompt'[s] = None
              /\ generated_image_obj'[s] = None
              /\ last_generation_status'[s] = None]_vars

\* C10: the derived artifacts are nested: an image only with a blueprint, a
\* prompt only with a blueprint, a blueprint only with an item and its
\* identifier.
C10_ArtifactsNested ==
    \A s \in Sessions :
        /\ generated_image_obj[s] # None => blueprint_data[s] # PyNone
        /\ vis_prompt[s] # None => blueprint_data[s] # PyNone
        /\ blueprint_data[s] # PyNone =>
              (uploaded_file_obj[s] # None /\ unique_id[s] # NoId)

\* C10, witness: a session holds an item, a blueprint, a prompt and an image.
C10_AllArtifactsStored ==
    \E s \in Sessions :
        /\ uploaded_file_obj[s] # None
        /\ blueprint_data[s] # PyNone
        /\ vis_prompt[s] # None
        /\ generated_image_obj[s] # None

\* C11: the generation status and the rendered image agree: the status is
\* success exactly when an image is stored.
C11_StatusMatchesImage ==
    \A s \in Sessions :
        (last_generation_status[s] = "success") <=> (generated_image_obj[s] # None)

====
